---- MODULE Spec2Model ----
(***************************************************************************)
(* Model of omaha's SplashScreen (src/ui/splash_screen.cc).                *)
(*                                                                         *)
(* Two threads: the caller thread (Show, Dismiss, ~SplashScreen) and the   *)
(* worker thread started by Show (Run, and the window-message handlers     *)
(* OnTimer / OnClose / OnDestroy that the message loop dispatches).        *)
(* lock_ is the recursive critical section taken by AutoSync.              *)
(* The message loop follows the GetMessage order: posted messages          *)
(* (WM_CLOSE) first, then WM_QUIT, then WM_TIMER.                          *)
(***************************************************************************)
EXTENDS Integers, Sequences, FiniteSets

\* ---- bounds of the model (not program constants) ----
MaxShow == 2
MaxDismiss == 2
MaxExternalClose == 1

\* ---- program constants ----
kDefaultAlphaScale == 100
kAlphaScales == <<0, 30, 47, 62, 75, 85, 93, kDefaultAlphaScale>>

\* arraysize(kAlphaScales)
arraysize == Len(kAlphaScales)

\* kAlphaScales[i] with the C++ 0-based index
AlphaScaleAt(i) == kAlphaScales[i + 1]

\* uint8 AlphaScaleToAlphaValue(int alpha_scale)
AlphaScaleToAlphaValue(alpha_scale) == ((alpha_scale * 255) \div 100) % 256

\* enum WindowState, in declaration order
STATE_CREATED == "STATE_CREATED"
STATE_INITIALIZED == "STATE_INITIALIZED"
STATE_SHOW_NORMAL == "STATE_SHOW_NORMAL"
STATE_FADING == "STATE_FADING"
STATE_CLOSED == "STATE_CLOSED"

WindowState ==
  {STATE_CREATED, STATE_INITIALIZED, STATE_SHOW_NORMAL, STATE_FADING, STATE_CLOSED}

VARIABLES
  state_,          \* SplashScreen::state_
  alpha_index_,    \* SplashScreen::alpha_index_
  timer_created_,  \* SplashScreen::timer_created_
  lock_,           \* owner of lock_: "none", "caller" or "worker"
  cpc,             \* position of the caller thread
  wpc,             \* position of the worker thread (thread_)
  hwnd,            \* IsWindow(): the native window exists
  opacity,         \* alpha value last given to SetLayeredWindowAttributes, -1 if none
  timerInstalled,  \* the native timer kClosingTimerID is installed on the window
  closePosted,     \* number of WM_CLOSE messages in the worker's queue
  quitPosted,      \* PostQuitMessage was called and WM_QUIT not yet retrieved
  calls,           \* counts of Show / Dismiss calls and external WM_CLOSE so far
  hist,            \* observation record: what has happened so far
  asserts          \* the ASSERT1 sites that have fired

vars == <<state_, alpha_index_, timer_created_, lock_, cpc, wpc, hwnd, opacity,
          timerInstalled, closePosted, quitPosted, calls, hist, asserts>>

\* ASSERT1(cond) at the named site
Assert1(cond, site) == IF cond THEN {} ELSE {site}

\* Thread::Running(): the thread was started and has not exited
Running == wpc \notin {"none", "exited"}

\* record that thread t used the window handle
Touch(h, t) == [h EXCEPT !.hwndUsers = @ \cup {t}]

\* record that a field was read or written by a thread not holding lock_
Unlocked(h, fields) == [h EXCEPT !.unlocked = @ \cup fields]

Init ==
  /\ state_ = STATE_CREATED
  /\ alpha_index_ = 0
  /\ timer_created_ = FALSE
  /\ lock_ = "none"
  /\ cpc = "idle"
  /\ wpc = "none"
  /\ hwnd = FALSE
  /\ opacity = -1
  /\ timerInstalled = FALSE
  /\ closePosted = 0
  /\ quitPosted = FALSE
  /\ calls = [show |-> 0, dismiss |-> 0, extClose |-> 0]
  /\ hist = [spawned |-> 0, windows |-> 0, setTimerCalls |-> 0, timerArms |-> 0,
             ticks |-> 0, opacityApplies |-> 0, closeRequests |-> 0,
             hwndUsers |-> {}, unlocked |-> {}, dismissedInCreated |-> FALSE,
             armFailed |-> FALSE, loopEntered |-> 0, dtor |-> "none",
             createFailed |-> FALSE]
  /\ asserts = {}

\* ---------------------------------------------------------------------
\* Caller thread
\* ---------------------------------------------------------------------

\* SplashScreen::Show.  thread_.Start(this) starts a worker unless one is still
\* running; state_ is left at STATE_CREATED.
Show ==
  /\ cpc = "idle"
  /\ lock_ = "none"
  /\ calls.show < MaxShow
  /\ calls' = [calls EXCEPT !.show = @ + 1]
  /\ IF state_ = STATE_CREATED
       THEN /\ asserts' = asserts
            /\ IF Running
                 THEN UNCHANGED <<wpc, hist>>
                 ELSE /\ wpc' = "start"
                      /\ hist' = [hist EXCEPT !.spawned = @ + 1]
       ELSE /\ asserts' = asserts \cup {"Show"}
            /\ UNCHANGED <<wpc, hist>>
  /\ UNCHANGED <<state_, alpha_index_, timer_created_, lock_, cpc, hwnd, opacity,
                 timerInstalled, closePosted, quitPosted>>

\* Dismiss with case STATE_FADING falling into SwitchToState(STATE_FADING)
DismissEnter_ReArm ==
  /\ cpc = "idle"
  /\ lock_ = "none"
  /\ calls.dismiss < MaxDismiss
  /\ calls' = [calls EXCEPT !.dismiss = @ + 1]
  /\ lock_' = "caller"
  /\ IF state_ = STATE_CREATED
       THEN /\ state_' = STATE_CLOSED
            /\ hist' = [hist EXCEPT !.dismissedInCreated = TRUE]
            /\ cpc' = "d_unlock"
       ELSE IF state_ = STATE_SHOW_NORMAL \/ state_ = STATE_FADING
         THEN /\ state_' = STATE_FADING
              /\ hist' = hist
              /\ cpc' = "d_fading"
         ELSE /\ UNCHANGED <<state_, hist>>
              /\ cpc' = "d_unlock"
  /\ UNCHANGED <<alpha_index_, timer_created_, wpc, hwnd, opacity, timerInstalled,
                 closePosted, quitPosted, asserts>>

\* Dismiss with case STATE_CREATED breaking without SwitchToState(STATE_CLOSED)
DismissEnter_NoClose ==
  /\ cpc = "idle"
  /\ lock_ = "none"
  /\ calls.dismiss < MaxDismiss
  /\ calls' = [calls EXCEPT !.dismiss = @ + 1]
  /\ lock_' = "caller"
  /\ IF state_ = STATE_CREATED
       THEN /\ state_' = state_
            /\ hist' = [hist EXCEPT !.dismissedInCreated = TRUE]
            /\ cpc' = "d_unlock"
       ELSE IF state_ = STATE_SHOW_NORMAL
         THEN /\ state_' = STATE_FADING
              /\ hist' = hist
              /\ cpc' = "d_fading"
         ELSE /\ UNCHANGED <<state_, hist>>
              /\ cpc' = "d_unlock"
  /\ UNCHANGED <<alpha_index_, timer_created_, wpc, hwnd, opacity, timerInstalled,
                 closePosted, quitPosted, asserts>>

\* SplashScreen::Dismiss: take the lock and switch on state_
DismissEnter ==
  /\ cpc = "idle"
  /\ lock_ = "none"
  /\ calls.dismiss < MaxDismiss
  /\ calls' = [calls EXCEPT !.dismiss = @ + 1]
  /\ lock_' = "caller"
  /\ IF state_ = STATE_CREATED
       THEN /\ state_' = STATE_CLOSED
            /\ hist' = [hist EXCEPT !.dismissedInCreated = TRUE]
            /\ cpc' = "d_unlock"
       ELSE IF state_ = STATE_SHOW_NORMAL
         THEN /\ state_' = STATE_FADING
              /\ hist' = hist
              /\ cpc' = "d_fading"
         ELSE /\ UNCHANGED <<state_, hist>>
              /\ cpc' = "d_unlock"
  /\ UNCHANGED <<alpha_index_, timer_created_, wpc, hwnd, opacity, timerInstalled,
                 closePosted, quitPosted, asserts>>

\* SwitchToState(STATE_FADING) without the Close() call when SetTimer fails
DismissFading_NoClose ==
  /\ cpc = "d_fading"
  /\ \E ok \in BOOLEAN :
       LET armed == ok /\ hwnd IN
       /\ asserts' = asserts \cup Assert1(hwnd, "Fading_IsWindow")
       /\ timer_created_' = armed
       /\ timerInstalled' = (timerInstalled \/ armed)
       /\ hist' = [Touch(hist, "caller") EXCEPT
                     !.setTimerCalls = @ + 1,
                     !.timerArms = IF armed THEN @ + 1 ELSE @,
                     !.armFailed = IF armed THEN @ ELSE TRUE]
       /\ cpc' = "d_unlock"
  /\ UNCHANGED <<state_, alpha_index_, lock_, wpc, hwnd, opacity, closePosted,
                 quitPosted, calls>>

\* SwitchToState(STATE_FADING) on the caller thread: ASSERT1(IsWindow()),
\* SetTimer, timer_created_.  SetTimer fails on a destroyed window and may
\* fail on a live one.
DismissFading ==
  /\ cpc = "d_fading"
  /\ \E ok \in BOOLEAN :
       LET armed == ok /\ hwnd IN
       /\ asserts' = asserts \cup Assert1(hwnd, "Fading_IsWindow")
       /\ timer_created_' = armed
       /\ timerInstalled' = (timerInstalled \/ armed)
       /\ hist' = [Touch(hist, "caller") EXCEPT
                     !.setTimerCalls = @ + 1,
                     !.timerArms = IF armed THEN @ + 1 ELSE @,
                     !.armFailed = IF armed THEN @ ELSE TRUE]
       /\ cpc' = IF armed THEN "d_unlock" ELSE "d_close"
  /\ UNCHANGED <<state_, alpha_index_, lock_, wpc, hwnd, opacity, closePosted,
                 quitPosted, calls>>

\* SplashScreen::Close called from SwitchToState(STATE_FADING)
DismissClose ==
  /\ cpc = "d_close"
  /\ IF state_ # STATE_CLOSED /\ hwnd
       THEN /\ closePosted' = closePosted + 1
            /\ hist' = [Touch(hist, "caller") EXCEPT !.closeRequests = @ + 1]
       ELSE /\ closePosted' = closePosted
            /\ hist' = Touch(hist, "caller")
  /\ cpc' = "d_unlock"
  /\ UNCHANGED <<state_, alpha_index_, timer_created_, lock_, wpc, hwnd, opacity,
                 timerInstalled, quitPosted, calls, asserts>>

\* Dismiss returns: AutoSync releases lock_
DismissReturn ==
  /\ cpc = "d_unlock"
  /\ lock_' = "none"
  /\ cpc' = "idle"
  /\ UNCHANGED <<state_, alpha_index_, timer_created_, wpc, hwnd, opacity,
                 timerInstalled, closePosted, quitPosted, calls, hist, asserts>>

\* ~SplashScreen without the wait for the worker thread
DtorEnter_NoWait ==
  /\ cpc = "idle"
  /\ cpc' = "destroyed"
  /\ hist' = [Unlocked(hist, {"state_"}) EXCEPT !.dtor = "notrunning"]
  /\ asserts' = asserts \cup
       Assert1(state_ = STATE_CREATED \/ state_ = STATE_CLOSED, "Dtor_state")
  /\ UNCHANGED <<state_, alpha_index_, timer_created_, lock_, wpc, hwnd, opacity,
                 timerInstalled, closePosted, quitPosted, calls>>

\* SplashScreen::~SplashScreen: thread_.Running() decides whether to wait
DtorEnter ==
  /\ cpc = "idle"
  /\ IF Running
       THEN /\ cpc' = "dtor_wait"
            /\ UNCHANGED <<hist, asserts>>
       ELSE /\ cpc' = "destroyed"
            /\ hist' = [Unlocked(hist, {"state_"}) EXCEPT !.dtor = "notrunning"]
            /\ asserts' = asserts \cup
                 Assert1(state_ = STATE_CREATED \/ state_ = STATE_CLOSED, "Dtor_state")
  /\ UNCHANGED <<state_, alpha_index_, timer_created_, lock_, wpc, hwnd, opacity,
                 timerInstalled, closePosted, quitPosted, calls>>

\* thread_.WaitTillExit returned true: the worker has exited
DtorJoined ==
  /\ cpc = "dtor_wait"
  /\ wpc = "exited"
  /\ cpc' = "destroyed"
  /\ hist' = [Unlocked(hist, {"state_"}) EXCEPT !.dtor = "joined"]
  /\ asserts' = asserts \cup
       Assert1(state_ = STATE_CREATED \/ state_ = STATE_CLOSED, "Dtor_state")
  /\ UNCHANGED <<state_, alpha_index_, timer_created_, lock_, wpc, hwnd, opacity,
                 timerInstalled, closePosted, quitPosted, calls>>

\* thread_.WaitTillExit timed out: log and return
DtorTimeout ==
  /\ cpc = "dtor_wait"
  /\ wpc # "exited"
  /\ cpc' = "destroyed"
  /\ hist' = [hist EXCEPT !.dtor = "timeout"]
  /\ UNCHANGED <<state_, alpha_index_, timer_created_, lock_, wpc, hwnd, opacity,
                 timerInstalled, closePosted, quitPosted, calls, asserts>>

\* ---------------------------------------------------------------------
\* Worker thread
\* ---------------------------------------------------------------------

\* Run without the early return on state_ != STATE_CREATED
RunEnter_NoCheck ==
  /\ wpc = "start"
  /\ lock_ = "none"
  /\ wpc' = "init"
  /\ lock_' = "worker"
  /\ UNCHANGED <<state_, alpha_index_, timer_created_, cpc, hwnd, opacity,
                 timerInstalled, closePosted, quitPosted, calls, hist, asserts>>

\* SplashScreen::Run: take the lock, return unless state_ == STATE_CREATED
RunEnter ==
  /\ wpc = "start"
  /\ lock_ = "none"
  /\ IF state_ # STATE_CREATED
       THEN /\ wpc' = "exited"
            /\ lock_' = "none"
       ELSE /\ wpc' = "init"
            /\ lock_' = "worker"
  /\ UNCHANGED <<state_, alpha_index_, timer_created_, cpc, hwnd, opacity,
                 timerInstalled, closePosted, quitPosted, calls, hist, asserts>>

\* Run going on to ShowWindow although Initialize failed
RunInitialize_IgnoreFailure ==
  /\ wpc = "init"
  /\ \E created \in BOOLEAN :
       IF created
         THEN /\ asserts' = asserts \cup Assert1(~hwnd, "Initialize_IsWindow")
                                   \cup Assert1(state_ = STATE_CREATED, "Initialize_state")
              /\ hwnd' = TRUE
              /\ opacity' = AlphaScaleToAlphaValue(kDefaultAlphaScale)
              /\ state_' = STATE_INITIALIZED
              /\ hist' = [Touch(hist, "worker") EXCEPT !.windows = @ + 1]
              /\ wpc' = "show"
              /\ lock_' = lock_
         ELSE /\ asserts' = asserts \cup Assert1(~hwnd, "Initialize_IsWindow")
                                   \cup Assert1(state_ = STATE_CREATED, "Initialize_state")
              /\ wpc' = "show"
              /\ lock_' = lock_
              /\ hist' = [Touch(hist, "worker") EXCEPT !.createFailed = TRUE]
              /\ UNCHANGED <<hwnd, opacity, state_>>
  /\ UNCHANGED <<alpha_index_, timer_created_, cpc, timerInstalled, closePosted,
                 quitPosted, calls>>

\* Run releasing lock_ after Initialize, before SwitchToState(STATE_SHOW_NORMAL)
RunInitialize_Unlock ==
  /\ wpc = "init"
  /\ \E created \in BOOLEAN :
       IF created
         THEN /\ asserts' = asserts \cup Assert1(~hwnd, "Initialize_IsWindow")
                                   \cup Assert1(state_ = STATE_CREATED, "Initialize_state")
              /\ hwnd' = TRUE
              /\ opacity' = AlphaScaleToAlphaValue(kDefaultAlphaScale)
              /\ state_' = STATE_INITIALIZED
              /\ hist' = [Touch(hist, "worker") EXCEPT !.windows = @ + 1]
              /\ wpc' = "show"
              /\ lock_' = "none"
         ELSE /\ asserts' = asserts \cup Assert1(~hwnd, "Initialize_IsWindow")
                                   \cup Assert1(state_ = STATE_CREATED, "Initialize_state")
              /\ wpc' = "exited"
              /\ lock_' = "none"
              /\ hist' = [Touch(hist, "worker") EXCEPT !.createFailed = TRUE]
              /\ UNCHANGED <<hwnd, opacity, state_>>
  /\ UNCHANGED <<alpha_index_, timer_created_, cpc, timerInstalled, closePosted,
                 quitPosted, calls>>

\* SplashScreen::Initialize, called by Run with the lock held
RunInitialize ==
  /\ wpc = "init"
  /\ \E created \in BOOLEAN :
       IF created
         THEN /\ asserts' = asserts \cup Assert1(~hwnd, "Initialize_IsWindow")
                                   \cup Assert1(state_ = STATE_CREATED, "Initialize_state")
              /\ hwnd' = TRUE
              /\ opacity' = AlphaScaleToAlphaValue(kDefaultAlphaScale)
              /\ state_' = STATE_INITIALIZED
              /\ hist' = [Touch(hist, "worker") EXCEPT !.windows = @ + 1]
              /\ wpc' = "show"
              /\ lock_' = lock_
         ELSE /\ asserts' = asserts \cup Assert1(~hwnd, "Initialize_IsWindow")
                                   \cup Assert1(state_ = STATE_CREATED, "Initialize_state")
              /\ wpc' = "exited"
              /\ lock_' = "none"
              /\ hist' = [Touch(hist, "worker") EXCEPT !.createFailed = TRUE]
              /\ UNCHANGED <<hwnd, opacity, state_>>
  /\ UNCHANGED <<alpha_index_, timer_created_, cpc, timerInstalled, closePosted,
                 quitPosted, calls>>

\* Run with SwitchToState(STATE_SHOW_NORMAL) leaving alpha_index_ alone
RunShow_NoReset ==
  /\ wpc = "show"
  /\ asserts' = asserts \cup Assert1(hwnd, "Run_IsWindow")
  /\ state_' = STATE_SHOW_NORMAL
  /\ alpha_index_' = alpha_index_
  /\ lock_' = "none"
  /\ wpc' = "loop"
  /\ hist' = [Touch(hist, "worker") EXCEPT !.loopEntered = @ + 1]
  /\ UNCHANGED <<timer_created_, cpc, hwnd, opacity, timerInstalled, closePosted,
                 quitPosted, calls>>

\* Run keeping lock_ across the message loop
RunShow_KeepLock ==
  /\ wpc = "show"
  /\ asserts' = asserts \cup Assert1(hwnd, "Run_IsWindow")
  /\ state_' = STATE_SHOW_NORMAL
  /\ alpha_index_' = arraysize - 1
  /\ lock_' = "worker"
  /\ wpc' = "loop"
  /\ hist' = [Touch(hist, "worker") EXCEPT !.loopEntered = @ + 1]
  /\ UNCHANGED <<timer_created_, cpc, hwnd, opacity, timerInstalled, closePosted,
                 quitPosted, calls>>

\* Run: ShowWindow, SwitchToState(STATE_SHOW_NORMAL), release the lock,
\* enter the message loop
RunShow ==
  /\ wpc = "show"
  /\ asserts' = asserts \cup Assert1(hwnd, "Run_IsWindow")
  /\ state_' = STATE_SHOW_NORMAL
  /\ alpha_index_' = arraysize - 1
  /\ lock_' = "none"
  /\ wpc' = "loop"
  /\ hist' = [Touch(hist, "worker") EXCEPT !.loopEntered = @ + 1]
  /\ UNCHANGED <<timer_created_, cpc, hwnd, opacity, timerInstalled, closePosted,
                 quitPosted, calls>>

\* OnClose marking the message handled without calling DestroyWindow
OnClose_NoDestroy ==
  /\ wpc = "loop"
  /\ closePosted > 0
  /\ closePosted' = closePosted - 1
  /\ wpc' = "loop"
  /\ hist' = hist
  /\ UNCHANGED <<state_, alpha_index_, timer_created_, lock_, cpc, hwnd, opacity,
                 timerInstalled, quitPosted, calls, asserts>>

\* OnClose calling ::PostQuitMessage(0) instead of DestroyWindow
OnClose_QuitWithoutDestroy ==
  /\ wpc = "loop"
  /\ closePosted > 0
  /\ closePosted' = closePosted - 1
  /\ quitPosted' = TRUE
  /\ wpc' = "loop"
  /\ hist' = hist
  /\ UNCHANGED <<state_, alpha_index_, timer_created_, lock_, cpc, hwnd, opacity,
                 timerInstalled, calls, asserts>>

\* message_loop.Run() retrieves a posted WM_CLOSE: OnClose calls DestroyWindow
OnClose ==
  /\ wpc = "loop"
  /\ closePosted > 0
  /\ closePosted' = closePosted - 1
  /\ wpc' = "ondestroy"
  /\ hist' = Touch(hist, "worker")
  /\ UNCHANGED <<state_, alpha_index_, timer_created_, lock_, cpc, hwnd, opacity,
                 timerInstalled, quitPosted, calls, asserts>>

\* OnDestroy without ::PostQuitMessage(0)
OnDestroy_NoQuit ==
  /\ wpc = "ondestroy"
  /\ IF timer_created_
       THEN /\ asserts' = asserts \cup Assert1(hwnd, "OnDestroy_IsWindow")
            /\ timerInstalled' = FALSE
       ELSE UNCHANGED <<asserts, timerInstalled>>
  /\ quitPosted' = quitPosted
  /\ hist' = Unlocked(Touch(hist, "worker"), {"timer_created_"})
  /\ wpc' = "destroyfinish"
  /\ UNCHANGED <<state_, alpha_index_, timer_created_, lock_, cpc, hwnd, opacity,
                 closePosted, calls>>

\* WM_DESTROY sent by DestroyWindow: OnDestroy
OnDestroy ==
  /\ wpc = "ondestroy"
  /\ IF timer_created_
       THEN /\ asserts' = asserts \cup Assert1(hwnd, "OnDestroy_IsWindow")
            /\ timerInstalled' = FALSE
       ELSE UNCHANGED <<asserts, timerInstalled>>
  /\ quitPosted' = TRUE
  /\ hist' = Unlocked(Touch(hist, "worker"), {"timer_created_"})
  /\ wpc' = "destroyfinish"
  /\ UNCHANGED <<state_, alpha_index_, timer_created_, lock_, cpc, hwnd, opacity,
                 closePosted, calls>>

\* DestroyWindow completes: the window, its timers and its queued messages are gone
DestroyFinish ==
  /\ wpc = "destroyfinish"
  /\ hwnd' = FALSE
  /\ timerInstalled' = FALSE
  /\ closePosted' = 0
  /\ wpc' = "loop"
  /\ UNCHANGED <<state_, alpha_index_, timer_created_, lock_, cpc, opacity,
                 quitPosted, calls, hist, asserts>>

\* OnTimer testing alpha_index_-- instead of --alpha_index_
OnTimer_PostDecrement ==
  /\ wpc = "loop"
  /\ closePosted = 0
  /\ ~quitPosted
  /\ timerInstalled
  /\ asserts' = asserts \cup Assert1(state_ = STATE_FADING, "OnTimer_state")
                          \cup Assert1(alpha_index_ > 0, "OnTimer_alpha")
  /\ alpha_index_' = alpha_index_ - 1
  /\ IF alpha_index_ # 0
       THEN /\ opacity' = IF alpha_index_' \in 0..(arraysize - 1)
                            THEN AlphaScaleToAlphaValue(AlphaScaleAt(alpha_index_'))
                            ELSE -1
            /\ hist' = [Unlocked(Touch(hist, "worker"), {"state_", "alpha_index_"})
                          EXCEPT !.ticks = @ + 1, !.opacityApplies = @ + 1]
            /\ wpc' = "loop"
       ELSE /\ opacity' = opacity
            /\ hist' = [Unlocked(hist, {"state_", "alpha_index_"})
                          EXCEPT !.ticks = @ + 1]
            /\ wpc' = "ontimer_close"
  /\ UNCHANGED <<state_, timer_created_, lock_, cpc, hwnd, timerInstalled,
                 closePosted, quitPosted, calls>>

\* message_loop.Run() retrieves WM_TIMER: OnTimer
OnTimer ==
  /\ wpc = "loop"
  /\ closePosted = 0
  /\ ~quitPosted
  /\ timerInstalled
  /\ asserts' = asserts \cup Assert1(state_ = STATE_FADING, "OnTimer_state")
                          \cup Assert1(alpha_index_ > 0, "OnTimer_alpha")
  /\ alpha_index_' = alpha_index_ - 1
  /\ IF alpha_index_' # 0
       THEN /\ opacity' = IF alpha_index_' \in 0..(arraysize - 1)
                            THEN AlphaScaleToAlphaValue(AlphaScaleAt(alpha_index_'))
                            ELSE -1
            /\ hist' = [Unlocked(Touch(hist, "worker"), {"state_", "alpha_index_"})
                          EXCEPT !.ticks = @ + 1, !.opacityApplies = @ + 1]
            /\ wpc' = "loop"
       ELSE /\ opacity' = opacity
            /\ hist' = [Unlocked(hist, {"state_", "alpha_index_"})
                          EXCEPT !.ticks = @ + 1]
            /\ wpc' = "ontimer_close"
  /\ UNCHANGED <<state_, timer_created_, lock_, cpc, hwnd, timerInstalled,
                 closePosted, quitPosted, calls>>

\* Close called from OnTimer with the guard inverted: nothing is posted
OnTimerClose_NoPost ==
  /\ wpc = "ontimer_close"
  /\ lock_ = "none"
  /\ IF ~(state_ # STATE_CLOSED /\ hwnd)
       THEN /\ closePosted' = closePosted + 1
            /\ hist' = [Touch(hist, "worker") EXCEPT !.closeRequests = @ + 1]
       ELSE /\ closePosted' = closePosted
            /\ hist' = Touch(hist, "worker")
  /\ wpc' = "loop"
  /\ UNCHANGED <<state_, alpha_index_, timer_created_, lock_, cpc, hwnd, opacity,
                 timerInstalled, quitPosted, calls, asserts>>

\* SplashScreen::Close called from OnTimer
OnTimerClose ==
  /\ wpc = "ontimer_close"
  /\ lock_ = "none"
  /\ IF state_ # STATE_CLOSED /\ hwnd
       THEN /\ closePosted' = closePosted + 1
            /\ hist' = [Touch(hist, "worker") EXCEPT !.closeRequests = @ + 1]
       ELSE /\ closePosted' = closePosted
            /\ hist' = Touch(hist, "worker")
  /\ wpc' = "loop"
  /\ UNCHANGED <<state_, alpha_index_, timer_created_, lock_, cpc, hwnd, opacity,
                 timerInstalled, quitPosted, calls, asserts>>

\* message_loop.Run() retrieves WM_QUIT and returns
LoopQuit ==
  /\ wpc = "loop"
  /\ closePosted = 0
  /\ quitPosted
  /\ quitPosted' = FALSE
  /\ wpc' = "postloop"
  /\ UNCHANGED <<state_, alpha_index_, timer_created_, lock_, cpc, hwnd, opacity,
                 timerInstalled, closePosted, calls, hist, asserts>>

\* Run: SwitchToState(STATE_CLOSED) after the loop; the thread exits
RunClosed ==
  /\ wpc = "postloop"
  /\ lock_ = "none"
  /\ state_' = STATE_CLOSED
  /\ wpc' = "exited"
  /\ UNCHANGED <<alpha_index_, timer_created_, lock_, cpc, hwnd, opacity,
                 timerInstalled, closePosted, quitPosted, calls, hist, asserts>>

\* ---------------------------------------------------------------------
\* Environment
\* ---------------------------------------------------------------------

\* a WM_CLOSE posted to the window from outside (external close signal)
ExternalClose ==
  /\ hwnd
  /\ calls.extClose < MaxExternalClose
  /\ calls' = [calls EXCEPT !.extClose = @ + 1]
  /\ closePosted' = closePosted + 1
  /\ UNCHANGED <<state_, alpha_index_, timer_created_, lock_, cpc, wpc, hwnd,
                 opacity, timerInstalled, quitPosted, hist, asserts>>

Next ==
  \/ Show
  \/ DismissEnter
  \/ DismissFading
  \/ DismissClose
  \/ DismissReturn
  \/ DtorEnter
  \/ DtorJoined
  \/ DtorTimeout
  \/ RunEnter
  \/ RunInitialize
  \/ RunShow
  \/ OnClose
  \/ OnDestroy
  \/ DestroyFinish
  \/ OnTimer
  \/ OnTimerClose
  \/ LoopQuit
  \/ RunClosed
  \/ ExternalClose

Spec == Init /\ [][Next]_vars

\* Scheduling: a started worker thread keeps running, the message loop keeps
\* dispatching, an installed timer keeps firing, a caller inside Dismiss() runs
\* to its return, and WaitTillExit returns (exit or timeout).  Whether and when
\* the caller calls Show(), Dismiss() or the destructor, and whether an external
\* WM_CLOSE arrives, is not constrained.
Fairness ==
  /\ WF_vars(RunEnter)
  /\ WF_vars(RunInitialize)
  /\ WF_vars(RunShow)
  /\ WF_vars(OnClose)
  /\ WF_vars(OnDestroy)
  /\ WF_vars(DestroyFinish)
  /\ WF_vars(OnTimer)
  /\ WF_vars(OnTimerClose)
  /\ WF_vars(LoopQuit)
  /\ WF_vars(RunClosed)
  /\ WF_vars(DismissFading)
  /\ WF_vars(DismissClose)
  /\ WF_vars(DismissReturn)
  /\ WF_vars(DtorJoined \/ DtorTimeout)

LiveSpec == Spec /\ Fairness

\* ---------------------------------------------------------------------
\* Properties
\* ---------------------------------------------------------------------

\* position of a state in the order CREATED < INITIALIZED < SHOW_NORMAL < FADING < CLOSED
Rank(s) ==
  CASE s = STATE_CREATED -> 0
    [] s = STATE_INITIALIZED -> 1
    [] s = STATE_SHOW_NORMAL -> 2
    [] s = STATE_FADING -> 3
    [] s = STATE_CLOSED -> 4

\* a step of the caller thread inside Dismiss
DismissStep == DismissEnter \/ DismissFading \/ DismissClose \/ DismissReturn

\* C1: every step of a Dismiss() call that is not the first one leaves state_,
\* alpha_index_ and timer_created_ alone and makes no SetTimer call; no step of
\* Dismiss() moves state_ out of CLOSED; over the whole execution the close
\* timer is armed at most once.
C1_DismissIdempotent ==
  /\ [][(DismissStep /\ calls'.dismiss >= 2) =>
          /\ UNCHANGED <<state_, alpha_index_, timer_created_, timerInstalled>>
          /\ hist'.setTimerCalls = hist.setTimerCalls]_vars
  /\ [][(DismissStep /\ state_ = STATE_CLOSED) => state_' = STATE_CLOSED]_vars
  /\ [](hist.timerArms <= 1 /\ hist.setTimerCalls <= 1)

\* a second Dismiss() has returned after the first one armed the timer
C1_Witness ==
  /\ calls.dismiss = 2
  /\ cpc = "idle"
  /\ hist.timerArms = 1
  /\ state_ = STATE_FADING

\* C2: once Dismiss() has run in STATE_CREATED the state is CLOSED, and from
\* then on no window exists or was ever created, SetTimer is never called, and
\* the worker thread, if spawned, never enters the message loop.
C2_DismissInCreated ==
  hist.dismissedInCreated =>
    /\ state_ = STATE_CLOSED
    /\ ~hwnd
    /\ hist.windows = 0
    /\ hist.setTimerCalls = 0
    /\ ~timerInstalled
    /\ hist.loopEntered = 0
    /\ wpc \in {"none", "start", "exited"}

\* Show() spawned the worker, Dismiss() ran first, and the worker has exited
C2_Witness ==
  /\ hist.dismissedInCreated
  /\ hist.spawned = 1
  /\ wpc = "exited"
  /\ hist.windows = 0

\* C3: a second Show() is flagged by the assertion and at most one worker
\* thread is ever started per instance.
C3_ShowAtMostOnce ==
  /\ (calls.show >= 2 => "Show" \in asserts)
  /\ hist.spawned <= 1

\* C4: state_ only moves forward in the order CREATED < INITIALIZED <
\* SHOW_NORMAL < FADING < CLOSED, and CLOSED is absorbing.
C4_Monotonic ==
  [][/\ Rank(state_') >= Rank(state_)
     /\ (state_ = STATE_CLOSED => state_' = STATE_CLOSED)]_vars

\* the whole lifecycle has been walked: a fade ran and the worker set CLOSED
C4_Witness ==
  /\ state_ = STATE_CLOSED
  /\ hist.ticks > 0
  /\ wpc = "exited"

\* C5: alpha_index_ stays within the opacity table; each handled timer tick
\* finds alpha_index_ > 0 and decreases it by exactly 1; once a tick has brought
\* alpha_index_ to 0 a close request is issued and no further tick is handled.
C5_AlphaIndexRange ==
  /\ [](alpha_index_ \in 0..(arraysize - 1))
  /\ [][OnTimer => (alpha_index_ > 0 /\ alpha_index_' = alpha_index_ - 1)]_vars
  /\ []((hist.ticks > 0 /\ alpha_index_ = 0 /\ wpc # "ontimer_close")
          => hist.closeRequests >= 1)
  /\ [][(hist.ticks > 0 /\ alpha_index_ = 0) => hist'.ticks = hist.ticks]_vars

\* the fade has run down to index 0 and the window was then destroyed
C5_Witness ==
  /\ hist.ticks > 0
  /\ alpha_index_ = 0
  /\ hist.closeRequests = 1
  /\ ~hwnd

\* C6 as stated: after 7 handled ticks exactly 7 opacity-apply side effects
\* have occurred, the 7th followed by a close request, and no 8th tick.
C6_SevenApplies ==
  /\ hist.ticks <= 7
  /\ (hist.ticks = 7 /\ wpc # "ontimer_close") =>
       (hist.opacityApplies = 7 /\ hist.closeRequests >= 1)

\* C6 amended: ticks 1..6 each apply the opacity of the new index; the 7th tick
\* applies no opacity and issues the close request instead, so exactly
\* arraysize - 2 = 6 opacity-apply side effects occur; no 8th tick is handled.
C6_SixApplies ==
  /\ hist.ticks <= arraysize - 1
  /\ hist.opacityApplies = (IF hist.ticks = arraysize - 1 THEN arraysize - 2 ELSE hist.ticks)
  /\ (hist.ticks \in 1..(arraysize - 2)) =>
       opacity = AlphaScaleToAlphaValue(AlphaScaleAt(arraysize - 1 - hist.ticks))
  /\ (hist.ticks = arraysize - 1 /\ wpc # "ontimer_close") => hist.closeRequests >= 1

\* seven ticks were handled from SHOW_NORMAL and the close request was posted
C6_Witness ==
  /\ hist.ticks = 7
  /\ hist.opacityApplies = 6
  /\ hist.closeRequests = 1
  /\ hist.timerArms = 1

C8_ShowNormalAlpha ==
  /\ [](state_ = STATE_SHOW_NORMAL => alpha_index_ = arraysize - 1)
  /\ [][(state_ # STATE_SHOW_NORMAL /\ state_' = STATE_SHOW_NORMAL)
          => alpha_index_' = arraysize - 1]_vars
  /\ [][(state_ \in {STATE_FADING, STATE_CLOSED}) => (state_' # STATE_SHOW_NORMAL)]_vars

\* the worker has shown the window and sits in the message loop
C8_Witness ==
  /\ state_ = STATE_SHOW_NORMAL
  /\ wpc = "loop"
  /\ hwnd

\* C9: only the worker thread ever uses the window handle.
C9_WorkerOnlyHandle == "caller" \notin hist.hwndUsers

\* C10: state_, alpha_index_ and timer_created_ are never read or written by a
\* thread that does not hold lock_, and the worker never reads timer_created_
\* unlocked while the caller is about to write it.
C10_AllAccessLocked ==
  /\ hist.unlocked = {}
  /\ ~(wpc = "ondestroy" /\ cpc = "d_fading")

\* C11: the destructor never blocks forever: once it waits it returns, by the
\* worker's exit or by the timeout; whenever it has returned by a path other
\* than the timeout, the worker thread is not running and state_ is CREATED or
\* CLOSED (its assertion holds).
C11_DtorBounded ==
  /\ [](hist.dtor \in {"joined", "notrunning"} =>
          /\ ~Running
          /\ state_ \in {STATE_CREATED, STATE_CLOSED}
          /\ "Dtor_state" \notin asserts)
  /\ [](hist.dtor = "timeout" => cpc = "destroyed")
  /\ (cpc = "dtor_wait" ~> cpc = "destroyed")

\* the destructor waited for a worker that ran the window and returned after its exit
C11_Witness ==
  /\ hist.dtor = "joined"
  /\ hist.loopEntered = 1
  /\ state_ = STATE_CLOSED

\* C12: the worker holds lock_ only between Run's state check and its entry
\* into the message loop, never while it sits in the loop; so once the loop has
\* been entered an idle caller finds lock_ free, and a caller inside Dismiss()
\* always gets back to its return.
C12_DismissNeverWaits ==
  /\ [](lock_ = "worker" => wpc \in {"init", "show"})
  /\ []((hist.loopEntered > 0 /\ cpc = "idle") => lock_ = "none")
  /\ (cpc \in {"d_fading", "d_close", "d_unlock"} ~> cpc = "idle")

\* Dismiss() has returned while the window still exists and is only fading
C12_Witness ==
  /\ calls.dismiss >= 1
  /\ cpc = "idle"
  /\ state_ = STATE_FADING
  /\ hwnd
  /\ wpc = "loop"

\* C13: when window creation fails the worker releases lock_ and exits in the
\* same step, leaving state_ at CREATED and the caller thread untouched; while
\* no window has been created there is no window, no message loop and no
\* SetTimer call; a later Dismiss() moves CREATED to CLOSED; the destructor
\* does not wait once the worker has exited.
C13_CreateFailure ==
  /\ []((hist.createFailed /\ hist.windows = 0) =>
          /\ ~hwnd
          /\ hist.loopEntered = 0
          /\ hist.setTimerCalls = 0
          /\ ~timerInstalled
          /\ state_ \in {STATE_CREATED, STATE_CLOSED}
          /\ wpc \in {"exited", "start", "init"})
  /\ [][(RunInitialize /\ ~hwnd') =>
          /\ wpc' = "exited"
          /\ lock_' = "none"
          /\ state_' = STATE_CREATED
          /\ cpc' = cpc
          /\ asserts' = asserts]_vars
  /\ [][(DismissEnter /\ hist.createFailed /\ hist.windows = 0 /\ state_ = STATE_CREATED)
          => state_' = STATE_CLOSED]_vars
  /\ [][(DtorEnter /\ wpc = "exited") => cpc' = "destroyed"]_vars

\* creation failed, Dismiss() then closed, and the destructor returned unblocked
C13_Witness ==
  /\ hist.createFailed
  /\ hist.windows = 0
  /\ wpc = "exited"
  /\ state_ = STATE_CLOSED
  /\ hist.dtor = "notrunning"

\* C14: when OnDestroy has finished, state_ is CLOSED, the timer is cancelled
\* and WM_QUIT is posted; no state has the window destroyed with state_ still
\* SHOW_NORMAL or FADING.
C14_DestroySetsClosed ==
  /\ (wpc = "destroyfinish" =>
        (state_ = STATE_CLOSED /\ ~timerInstalled /\ quitPosted))
  /\ ((hist.windows > 0 /\ ~hwnd) => state_ \notin {STATE_SHOW_NORMAL, STATE_FADING})

\* C15: timer_created_ is true only while the native timer is installed, and
\* is false whenever state_ is not FADING.
C15_TimerActiveOnlyFading ==
  /\ (timer_created_ => timerInstalled)
  /\ (state_ # STATE_FADING => ~timer_created_)

\* C16: ASSERT1(IsWindow()) on entering FADING never fires: whenever Dismiss()
\* performs SHOW_NORMAL -> FADING the window exists.
C16_FadingWindowExists ==
  /\ "Fading_IsWindow" \notin asserts
  /\ (cpc = "d_fading" => hwnd)

\* C17: under the scheduling of LiveSpec, once the window has been created and
\* Dismiss() has been called, eventually the window is gone, the message loop
\* has returned, state_ is CLOSED and the worker thread has exited, whether
\* SetTimer succeeded or not; after that a waiting destructor can only return
\* by the worker's exit.
C17_EventuallyClosed ==
  /\ ((hist.windows > 0 /\ calls.dismiss > 0)
        ~> (state_ = STATE_CLOSED /\ wpc = "exited" /\ ~hwnd /\ ~quitPosted))
  /\ []((hist.windows > 0 /\ wpc = "exited") => state_ = STATE_CLOSED)

\* the window was dismissed, faded through all seven ticks, and the worker exited
C17_Witness ==
  /\ hist.windows > 0
  /\ calls.dismiss > 0
  /\ calls.extClose = 0
  /\ hist.ticks = arraysize - 1
  /\ state_ = STATE_CLOSED
  /\ wpc = "exited"

\* C18: OnTimer only ever runs with state_ == FADING, alpha_index_ > 0 and the
\* window alive (its two assertions never fire); the timer is installed only
\* by the transition into FADING and is never installed once the window is
\* destroyed or state_ is CLOSED.
C18_TimerOnlyWhileFading ==
  /\ [][OnTimer => (state_ = STATE_FADING /\ alpha_index_ > 0 /\ hwnd)]_vars
  /\ [](timerInstalled => (state_ = STATE_FADING /\ hwnd /\ hist.timerArms = 1))
  /\ [](asserts \cap {"OnTimer_state", "OnTimer_alpha"} = {})

\* a tick has been handled and the fade is still running
C18_Witness ==
  /\ hist.ticks >= 1
  /\ state_ = STATE_FADING
  /\ wpc = "loop"
  /\ timerInstalled

====
